---- MODULE Spec2Model ----
(***************************************************************************)
(* GRAFIMO motif containers: MotifSet / MotifSetIterator (motif_set.py),   *)
(* Motif (motif.py) and the list helpers of utils.py.                      *)
(***************************************************************************)
EXTENDS Integers, Sequences, FiniteSets, TLC

\* ------------------------------------------------------------------------
\* Bounds of the exploration
NumSets == 2        \* MotifSet instances the program may create
NumCursors == 1     \* MotifSetIterator objects alive at a time
NumMotifs == 2      \* distinct Motif objects handed to addMotif
MaxBatch == 2       \* longest list passed to addMotif
MaxLen == 2         \* longest motif list explored
MaxMutations == 2   \* attribute changes explored on one Motif object

SetIds == 1..NumSets
CursorIds == 1..NumCursors
MotifObjs == 1..NumMotifs
\* an object that is not an instance of Motif (e.g. a str)
NotAMotif == 0
Elems == MotifObjs \cup {NotAMotif}
Batches == UNION {[1..n -> Elems] : n \in 0..MaxBatch}
\* arguments of addMotif: a list, or the same elements in a tuple
AddArgs == [kind : {"list", "tuple"}, val : Batches]

VARIABLES
    assertsOn,    \* __debug__: assert statements are executed (off under -O)
    instances,    \* MotifSet objects constructed so far
    motifs,       \* the list object bound to MotifSet._motifs
    motifs_num,   \* _motifs_num as seen through each instance
    cursors,      \* MotifSetIterator objects: _motifSet (0: none yet), _index
    added,        \* history: motifs each instance received through addMotif
    yielded,      \* history: motifs each cursor returned from __next__
    last,         \* the last call: operation, receiver, argument, outcome
    constructed,  \* a Motif object has been constructed
    motif,        \* the attributes seen through the Motif object
    mutations,    \* attribute changes made to the Motif object so far
    mlast,        \* the last call on Motif: operation, argument, outcome
    ulst,         \* the list handed to unique_lst
    usize,        \* the size handed to unique_lst
    ucalled,      \* unique_lst has been called
    uret          \* the outcome of the call of unique_lst

setVars == <<assertsOn, instances, motifs, motifs_num, cursors, added, yielded, last>>
motifVars == <<constructed, motif, mutations, mlast>>
utilVars == <<ulst, usize, ucalled, uret>>
vars == <<setVars, motifVars, utilVars>>

\* ------------------------------------------------------------------------
\* MotifSet

\* the record describing a call and its outcome
Call(op, self, kind, arg, err, ret, val) ==
    [op |-> op, self |-> self, kind |-> kind, arg |-> arg,
     err |-> err, ret |-> ret, val |-> val]

\* self._motifs: __init__ creates no list; += extends the class attribute
\* list in place and binds the instance attribute to that same object, so
\* every instance reads the one list
Motifs(s) == motifs

\* isinstance(m, Motif)
IsMotif(m) == m \in MotifObjs

\* all(isinstance(m, Motif) for m in mtfs)
AllMotifs(mtfs) == \A i \in 1..Len(mtfs) : IsMotif(mtfs[i])

\* assert self._motifs_num > 0, as a weaker check
SizeAssertHolds_nonneg(n) == n >= 0

\* assert self._motifs_num > 0
SizeAssertHolds(n) == n > 0

\* MotifSet(): __init__ does nothing, the class attributes stay visible
NewMotifSet(s) ==
    /\ s \notin instances
    /\ instances' = instances \cup {s}
    /\ last' = Call("MotifSet", s, "none", <<>>, "none", <<>>, 0)
    /\ UNCHANGED <<assertsOn, motifs, motifs_num, cursors, added, yielded>>
    /\ UNCHANGED <<motifVars, utilVars>>

\* MotifSet.addMotif(mtfs)
addMotif(s, a) ==
    /\ s \in instances
    /\ Len(motifs) + Len(a.val) <= MaxLen
    /\ IF a.kind # "list"
       THEN /\ last' = Call("addMotif", s, a.kind, a.val, "TypeError", <<>>, 0)
            /\ UNCHANGED <<motifs, motifs_num, added>>
       ELSE IF ~AllMotifs(a.val)
       THEN \* the message is built from m, which is not bound in this scope
            /\ last' = Call("addMotif", s, a.kind, a.val, "NameError", <<>>, 0)
            /\ UNCHANGED <<motifs, motifs_num, added>>
       ELSE LET newnum == motifs_num[s] + Len(a.val)
                failed == assertsOn /\ ~SizeAssertHolds(newnum)
            IN  /\ motifs' = motifs \o a.val
                /\ motifs_num' = [motifs_num EXCEPT ![s] = newnum]
                /\ added' = [added EXCEPT ![s] = @ \o a.val]
                /\ last' = Call("addMotif", s, a.kind, a.val,
                                IF failed THEN "AssertionError" ELSE "none", <<>>, 0)
    /\ UNCHANGED <<assertsOn, instances, cursors, yielded>>
    /\ UNCHANGED <<motifVars, utilVars>>

\* the outcome of MotifSet.getMotifsList(): error and returned list
getMotifsListResult(s) ==
    IF Motifs(s) = <<>> THEN [err |-> "ValueError", ret |-> <<>>]
    ELSE IF motifs_num[s] = 0 THEN [err |-> "ValueError", ret |-> <<>>]
    ELSE [err |-> "none", ret |-> Motifs(s)]

\* MotifSet.getMotifsList()
getMotifsList(s) ==
    /\ s \in instances
    /\ LET r == getMotifsListResult(s)
       IN  last' = Call("getMotifsList", s, "none", <<>>, r.err, r.ret, 0)
    /\ UNCHANGED <<assertsOn, instances, motifs, motifs_num, cursors, added, yielded>>
    /\ UNCHANGED <<motifVars, utilVars>>

\* MotifSet._size(): the outcome of the size property
sizeResult(s) ==
    IF assertsOn /\ ~(motifs_num[s] >= 0)
    THEN [err |-> "AssertionError", val |-> 0]
    ELSE [err |-> "none", val |-> motifs_num[s]]

\* MotifSet.size
size(s) ==
    /\ s \in instances
    /\ LET r == sizeResult(s)
       IN  last' = Call("size", s, "none", <<>>, r.err, <<>>, r.val)
    /\ UNCHANGED <<assertsOn, instances, motifs, motifs_num, cursors, added, yielded>>
    /\ UNCHANGED <<motifVars, utilVars>>

\* MotifSet.__len__()
lenResult(s) == Len(Motifs(s))

\* len(motifSet)
len(s) ==
    /\ s \in instances
    /\ last' = Call("len", s, "none", <<>>, "none", <<>>, lenResult(s))
    /\ UNCHANGED <<assertsOn, instances, motifs, motifs_num, cursors, added, yielded>>
    /\ UNCHANGED <<motifVars, utilVars>>

\* ------------------------------------------------------------------------
\* MotifSetIterator

\* MotifSet.__iter__(): MotifSetIterator(self), a new cursor in slot c
iter(s, c) ==
    /\ s \in instances
    /\ cursors' = [cursors EXCEPT ![c] = [motifSet |-> s, index |-> 0]]
    /\ yielded' = [yielded EXCEPT ![c] = <<>>]
    /\ last' = Call("iter", c, "none", <<>>, "none", <<>>, s)
    /\ UNCHANGED <<assertsOn, instances, motifs, motifs_num, added>>
    /\ UNCHANGED <<motifVars, utilVars>>

\* MotifSetIterator.__next__()
next(c) ==
    /\ cursors[c].motifSet # 0
    /\ LET s == cursors[c].motifSet
           i == cursors[c].index
           sz == sizeResult(s)
           lst == getMotifsListResult(s)
       IN  IF sz.err # "none"
           THEN /\ last' = Call("next", c, "none", <<>>, sz.err, <<>>, 0)
                /\ UNCHANGED <<cursors, yielded>>
           ELSE IF i < sz.val
           THEN IF lst.err # "none"
                THEN /\ last' = Call("next", c, "none", <<>>, lst.err, <<>>, 0)
                     /\ UNCHANGED <<cursors, yielded>>
                ELSE IF i + 1 > Len(lst.ret)
                THEN /\ last' = Call("next", c, "none", <<>>, "IndexError", <<>>, 0)
                     /\ UNCHANGED <<cursors, yielded>>
                ELSE /\ cursors' = [cursors EXCEPT ![c].index = i + 1]
                     /\ yielded' = [yielded EXCEPT ![c] = Append(@, lst.ret[i + 1])]
                     /\ last' = Call("next", c, "none", <<>>, "none", <<>>, lst.ret[i + 1])
           ELSE /\ last' = Call("next", c, "none", <<>>, "StopIteration", <<>>, 0)
                /\ UNCHANGED <<cursors, yielded>>
    /\ UNCHANGED <<assertsOn, instances, motifs, motifs_num, added>>
    /\ UNCHANGED <<motifVars, utilVars>>

\* ------------------------------------------------------------------------
\* utils.py

DNA_ALPHABET == <<"A", "C", "G", "T">>

\* set(lst)
Range(lst) == {lst[i] : i \in 1..Len(lst)}

\* isListEqual(lst1, lst2)
isListEqual(lst1, lst2) == Len(lst1) = Len(lst2) /\ Range(lst1) = Range(lst2)

\* ------------------------------------------------------------------------
\* unique_lst: the arguments of a call and the call itself

MaxListLen == 3
MaxSize == 3
\* the values a list handed to unique_lst holds
ListElems == {"chr1", "chr2", "chrX"}
ListArgs == UNION {[1..n -> ListElems] : n \in 0..MaxListLen}
\* size: None (the default) or an int
NoSize == [kind |-> "None", val |-> 0]
SizeArgs == {NoSize} \cup [kind : {"int"}, val : 0..MaxSize]

\* the outcome of a call of unique_lst
U(err, line, ret) == [err |-> err, line |-> line, ret |-> ret]

LimitReached_late(sizeArg, el_num) == sizeArg # NoSize /\ el_num = sizeArg.val + 1
\* size != None and el_num == size
LimitReached(sizeArg, el_num) == sizeArg # NoSize /\ el_num = sizeArg.val

RECURSIVE UniqueLoop(_, _, _, _, _)
\* the for loop of unique_lst from position i on, with the list built so
\* far and the count of its elements
UniqueLoop(lst, sizeArg, i, unique, el_num) ==
    IF i > Len(lst) THEN unique
    ELSE LET fresh == lst[i] \notin Range(unique)
             unique2 == IF fresh THEN Append(unique, lst[i]) ELSE unique
             el_num2 == IF fresh THEN el_num + 1 ELSE el_num
         IN  IF LimitReached(sizeArg, el_num2) THEN unique2
             ELSE UniqueLoop(lst, sizeArg, i + 1, unique2, el_num2)

\* unique_lst(lst, size)
unique_lstResult(lst, sizeArg, asserts) ==
    IF asserts /\ ~(Len(lst) > 0) THEN U("AssertionError", 343, <<>>)
    ELSE LET unique == UniqueLoop(lst, sizeArg, 1, <<>>, 0)
         IN  IF asserts /\ ~(Len(unique) > 0) THEN U("AssertionError", 357, <<>>)
             ELSE U("none", 359, unique)

\* the program calls unique_lst on its arguments
unique_lst ==
    /\ ~ucalled
    /\ ucalled' = TRUE
    /\ uret' = unique_lstResult(ulst, usize, assertsOn)
    /\ UNCHANGED <<ulst, usize, setVars, motifVars>>

\* ------------------------------------------------------------------------
\* Motif: the values handed to the constructor and to the setters

\* np.inf, above every finite value used here
Inf == 1000

\* a DataFrame with no cell
EmptyMat == <<>>
\* a matrix of tenths, as rows: 2 rows of 4 columns
MatA == <<<<7, 1, 1, 1>>, <<2, 3, 2, 3>>>>
\* 4 rows of 2 columns
MatB == <<<<1, 6>>, <<2, 2>>, <<3, 1>>, <<4, 1>>>>
\* a background distribution as a dict, in hundredths
UniformBg == {<<"A", 25>>, <<"C", 25>>, <<"G", 25>>, <<"T", 25>>}

\* an argument is the kind of the Python value and the value itself
Args(kinds, vals) == [kind : kinds, val : vals]

\* one value of a wrong kind next to the values of the right kind
Wrong(kind, val) == {[kind |-> kind, val |-> val]}

MatrixArgs == Args({"DataFrame"}, {EmptyMat, MatA, MatB}) \cup Wrong("list", MatA)
ScoreArgs == Args({"ndarray", "DataFrame"}, {EmptyMat, MatA}) \cup Wrong("list", MatA)
PvalArgs == Args({"ndarray"}, {<<>>, <<0, 0>>, <<10, 5>>}) \cup Wrong("list", <<10, 5>>)
BoundArgs == Args({"int"}, {-2, 3}) \cup Wrong("float", 3)
ScaleArgs == Args({"int"}, {0, 2}) \cup Wrong("float", 2)
OffsetArgs == Args({"np.double"}, {0, 5}) \cup Wrong("float", 5)
BgArgs == Args({"dict"}, {UniformBg}) \cup Wrong("list", UniformBg)
WidthArgs == Args({"int"}, {0, 1}) \cup Wrong("float", 1)
IdArgs == Args({"str"}, {"", "MA0002.1"}) \cup Wrong("int", "2")
NameArgs == Args({"str"}, {"", "CTCF"}) \cup Wrong("int", "2")
AlphabetVals ==
    { DNA_ALPHABET, <<"T", "G", "C", "A">>, <<"A", "C", "G">>, <<>>,
      <<"A", "C", "G", "T", "T">>, <<"A", "C", "G", "N">>, <<"A", "A", "C", "G">> }
AlphabetArgs == Args({"list"}, AlphabetVals) \cup Wrong("tuple", DNA_ALPHABET)
PrintArgs ==
    Args({"str"}, {"", "raw_counts", "score_matrix", "pval_matrix", "counts"})
        \cup Wrong("int", "0")
\* Motif(count_matrix, width, alphabet, motif_id, motif_name)
InitArgs ==
    [count_matrix : Args({"DataFrame"}, {EmptyMat, MatA}) \cup Wrong("list", MatA),
     width : Args({"int"}, {0, 2}) \cup Wrong("float", 2),
     alphabet : AlphabetArgs,
     motif_id : Args({"str"}, {"", "MA0001.1"}) \cup Wrong("int", "1"),
     motif_name : Args({"str"}, {"", "RUNX1"}) \cup Wrong("int", "1")]

\* an attribute that no assignment has created yet
Absent == [kind |-> "absent", val |-> <<>>]

\* the attributes read through an object before any assignment: the class
\* attribute defaults, the others absent
ClassMotif ==
    [_count_matrix |-> <<>>, _score_matrix |-> Absent, _pval_matrix |-> Absent,
     _min_val |-> -Inf, _max_val |-> Inf, _scale |-> -1, _offset |-> 0,
     _bg |-> Absent, _width |-> -1, _motif_id |-> "", _motif_name |-> "",
     _alphabet |-> <<>>, alphabet |-> <<>>, _isScaled |-> FALSE]

\* the outcome of a call: exception raised (and the line raising it), the
\* object's attributes afterwards, the value returned
R(err, line, m, ret) == [err |-> err, line |-> line, motif |-> m, ret |-> ret]

\* ------------------------------------------------------------------------
\* Motif.__init__

\* the validation of __init__ with the name checked before the id
InitError_nameFirst(a) ==
    IF a.count_matrix.kind # "DataFrame" THEN <<"TypeError", 171>>
    ELSE IF a.count_matrix.val = EmptyMat THEN <<"NotValidMotifMatrixException", 174>>
    ELSE IF a.width.kind # "int" THEN <<"TypeError", 177>>
    ELSE IF a.width.val <= 0 THEN <<"ValueError", 180>>
    ELSE IF a.motif_name.kind # "str" THEN <<"TypeError", 189>>
    ELSE IF a.motif_name.val = "" THEN <<"ValueError", 192>>
    ELSE IF a.motif_id.kind # "str" THEN <<"TypeError", 183>>
    ELSE IF a.motif_id.val = "" THEN <<"ValueError", 186>>
    ELSE IF a.alphabet.kind # "list" THEN <<"TypeError", 195>>
    ELSE IF ~isListEqual(a.alphabet.val, DNA_ALPHABET) THEN <<"ValueError", 198>>
    ELSE <<"none", 0>>

\* the validation of __init__: the exception raised and the raising line
InitError(a) ==
    IF a.count_matrix.kind # "DataFrame" THEN <<"TypeError", 171>>
    ELSE IF a.count_matrix.val = EmptyMat THEN <<"NotValidMotifMatrixException", 174>>
    ELSE IF a.width.kind # "int" THEN <<"TypeError", 177>>
    ELSE IF a.width.val <= 0 THEN <<"ValueError", 180>>
    ELSE IF a.motif_id.kind # "str" THEN <<"TypeError", 183>>
    ELSE IF a.motif_id.val = "" THEN <<"ValueError", 186>>
    ELSE IF a.motif_name.kind # "str" THEN <<"TypeError", 189>>
    ELSE IF a.motif_name.val = "" THEN <<"ValueError", 192>>
    ELSE IF a.alphabet.kind # "list" THEN <<"TypeError", 195>>
    ELSE IF ~isListEqual(a.alphabet.val, DNA_ALPHABET) THEN <<"ValueError", 198>>
    ELSE <<"none", 0>>

\* Motif.__init__: the attributes of the new object
InitResult(a) ==
    LET e == InitError(a)
    IN  IF e[1] # "none" THEN R(e[1], e[2], ClassMotif, "None")
        ELSE R("none", 0,
               [ClassMotif EXCEPT !._count_matrix = a.count_matrix.val,
                                  !._width = a.width.val,
                                  !._motif_id = a.motif_id.val,
                                  !._motif_name = a.motif_name.val,
                                  !._alphabet = a.alphabet.val],
               "None")

\* ------------------------------------------------------------------------
\* Motif setters

setMotif_matrixResult(m, a) ==
    IF a.kind # "DataFrame" THEN R("TypeError", 209, m, "None")
    ELSE IF a.val = EmptyMat THEN R("ValueError", 212, m, "None")
    ELSE R("none", 0, [m EXCEPT !._count_matrix = a.val], "None")

setMotif_scoreMatrixResult(m, a) ==
    IF a.kind # "ndarray" /\ a.kind # "DataFrame" THEN R("TypeError", 220, m, "None")
    ELSE IF a.kind = "DataFrame" /\ a.val = EmptyMat THEN R("ValueError", 224, m, "None")
    ELSE IF a.kind = "ndarray" /\ a.val = EmptyMat THEN R("ValueError", 228, m, "None")
    ELSE R("none", 0, [m EXCEPT !._score_matrix = a], "None")

\* isinstance(pval_mat, np.array): np.array is a function, not a type, and
\* isinstance itself raises TypeError for every argument
setMotif_pval_matrixResult(m, a) == R("TypeError", 233, m, "None")

setMin_valResult(m, a) ==
    IF a.kind # "int" THEN R("TypeError", 248, m, "None")
    ELSE IF a.val <= -Inf THEN R("ValueError", 251, m, "None")
    ELSE R("none", 0, [m EXCEPT !._min_val = a.val], "None")

setMax_valResult(m, a) ==
    IF a.kind # "int" THEN R("TypeError", 258, m, "None")
    ELSE IF a.val >= Inf THEN R("ValueError", 261, m, "None")
    ELSE R("none", 0, [m EXCEPT !._max_val = a.val], "None")

setScaleResult(m, a) ==
    IF a.kind # "int" THEN R("TypeError", 268, m, "None")
    ELSE IF a.val <= 0 THEN R("ValueError", 271, m, "None")
    ELSE R("none", 0, [m EXCEPT !._scale = a.val], "None")

setOffsetResult(m, a) ==
    IF a.kind # "np.double" THEN R("TypeError", 278, m, "None")
    ELSE R("none", 0, [m EXCEPT !._offset = a.val], "None")

setBgResult(m, a) ==
    IF a.kind # "dict" THEN R("TypeError", 285, m, "None")
    ELSE R("none", 0, [m EXCEPT !._bg = a], "None")

setWidthResult(m, a) ==
    IF a.kind # "int" THEN R("TypeError", 292, m, "None")
    ELSE IF a.val <= 0 THEN R("ValueError", 295, m, "None")
    ELSE R("none", 0, [m EXCEPT !._width = a.val], "None")

\* the TypeError message is built with errmsg.format(motif_id).__name__,
\* and a str has no __name__
setMotifIDResult(m, a) ==
    IF a.kind # "str" THEN R("AttributeError", 302, m, "None")
    ELSE IF a.val = "" THEN R("ValueError", 305, m, "None")
    ELSE R("none", 0, [m EXCEPT !._motif_id = a.val], "None")

setMotifNameResult(m, a) ==
    IF a.kind # "str" THEN R("TypeError", 311, m, "None")
    ELSE IF a.val = "" THEN R("ValueError", 314, m, "None")
    ELSE R("none", 0, [m EXCEPT !._motif_name = a.val], "None")

\* the accepted list is bound to self.alphabet, not to self._alphabet
setAlphabetResult(m, a) ==
    IF a.kind # "list" THEN R("TypeError", 321, m, "None")
    ELSE IF Len(a.val) = 0 THEN R("ValueError", 324, m, "None")
    ELSE IF ~isListEqual(a.val, DNA_ALPHABET) THEN R("ValueError", 327, m, "None")
    ELSE R("none", 0, [m EXCEPT !.alphabet = a.val], "None")

\* setIsScaled without the check of the flag
setIsScaledResult_unguarded(m) ==
    R("none", 0, [m EXCEPT !._isScaled = TRUE], "None")

setIsScaledResult(m) ==
    IF m._isScaled THEN R("AssertionError", 334, m, "None")
    ELSE R("none", 0, [m EXCEPT !._isScaled = TRUE], "None")

\* ------------------------------------------------------------------------
\* Motif getters: an attribute never assigned raises AttributeError

getMotif_matrixResult(m) == R("none", 0, m, m._count_matrix)

getMotif_scoreMatrixResult(m) ==
    IF m._score_matrix = Absent THEN R("AttributeError", 343, m, "None")
    ELSE R("none", 0, m, m._score_matrix)

getMotif_pval_matResult(m) ==
    IF m._pval_matrix = Absent THEN R("AttributeError", 347, m, "None")
    ELSE R("none", 0, m, m._pval_matrix)

getMin_valResult(m) == R("none", 0, m, m._min_val)

getMax_valResult(m) == R("none", 0, m, m._max_val)

getScaleResult(m) == R("none", 0, m, m._scale)

getOffsetResult(m) == R("none", 0, m, m._offset)

getBgResult(m) ==
    IF m._bg = Absent THEN R("AttributeError", 367, m, "None")
    ELSE R("none", 0, m, m._bg)

getWidthResult(m) == R("none", 0, m, m._width)

getMotifIDResult(m) == R("none", 0, m, m._motif_id)

getMotifNameResult(m) == R("none", 0, m, m._motif_name)

getAlphabetResult(m) == R("none", 0, m, m._alphabet)

getIsScaledResult(m) == R("none", 0, m, m._isScaled)

\* the value returned by each getter, by name
GetterResult(m) ==
    [getMotif_matrix |-> getMotif_matrixResult(m),
     getMotif_scoreMatrix |-> getMotif_scoreMatrixResult(m),
     getMotif_pval_mat |-> getMotif_pval_matResult(m),
     getMin_val |-> getMin_valResult(m),
     getMax_val |-> getMax_valResult(m),
     getScale |-> getScaleResult(m),
     getOffset |-> getOffsetResult(m),
     getBg |-> getBgResult(m),
     getWidth |-> getWidthResult(m),
     getMotifID |-> getMotifIDResult(m),
     getMotifName |-> getMotifNameResult(m),
     getAlphabet |-> getAlphabetResult(m),
     getIsScaled |-> getIsScaledResult(m)]

Getters == DOMAIN GetterResult(ClassMotif)

\* ------------------------------------------------------------------------
\* Motif.compute_minValue and Motif.print

\* min of a non-empty set of numbers
Least(S) == CHOOSE x \in S : \A y \in S : x <= y

\* DataFrame.min(): the minimum of column j over all rows
ColumnMin(mat, j) == Least({mat[i][j] : i \in 1..Len(mat)})

RECURSIVE SumColumnMins(_, _)
\* DataFrame.min().sum() over the columns 1 .. j
SumColumnMins(mat, j) ==
    IF j = 0 THEN 0 ELSE ColumnMin(mat, j) + SumColumnMins(mat, j - 1)

compute_minValueResult(m) ==
    LET motif_matrix == getMotif_matrixResult(m).ret
        min_value == SumColumnMins(motif_matrix, Len(motif_matrix[1]))
    IN  R("none", 0, [m EXCEPT !._min_val = min_value], "None")

\* the membership test names allowed_matrices, which is defined nowhere
printResult(m, a) ==
    IF a.kind # "str" THEN R("TypeError", 399, m, "None")
    ELSE IF a.val = "" THEN R("ValueError", 402, m, "None")
    ELSE R("NameError", 404, m, "None")

\* ------------------------------------------------------------------------
\* Calls on Motif

MCall(op, arg, r) ==
    [op |-> op, arg |-> arg, err |-> r.err, line |-> r.line, ret |-> r.ret]

\* Motif(...): the program constructs its Motif first; a failed
\* construction produces no object and ends the program
NewMotif(a) ==
    /\ ~constructed
    /\ mlast.op = "init"
    /\ LET r == InitResult(a)
       IN  /\ constructed' = (r.err = "none")
           /\ motif' = r.motif
           /\ mlast' = MCall("Motif", a, r)
    /\ UNCHANGED <<mutations, setVars, utilVars>>

\* a method call on the constructed object, with outcome r
MotifCall(op, arg, r) ==
    /\ constructed
    /\ r.motif # motif => mutations < MaxMutations
    /\ motif' = r.motif
    /\ mutations' = IF r.motif # motif THEN mutations + 1 ELSE mutations
    /\ mlast' = MCall(op, arg, r)
    /\ UNCHANGED <<constructed, setVars, utilVars>>

setMotif_matrix(a) == MotifCall("setMotif_matrix", a, setMotif_matrixResult(motif, a))
setMotif_scoreMatrix(a) == MotifCall("setMotif_scoreMatrix", a, setMotif_scoreMatrixResult(motif, a))
setMotif_pval_matrix(a) == MotifCall("setMotif_pval_matrix", a, setMotif_pval_matrixResult(motif, a))
setMin_val(a) == MotifCall("setMin_val", a, setMin_valResult(motif, a))
setMax_val(a) == MotifCall("setMax_val", a, setMax_valResult(motif, a))
setScale(a) == MotifCall("setScale", a, setScaleResult(motif, a))
setOffset(a) == MotifCall("setOffset", a, setOffsetResult(motif, a))
setBg(a) == MotifCall("setBg", a, setBgResult(motif, a))
setWidth(a) == MotifCall("setWidth", a, setWidthResult(motif, a))
setMotifID(a) == MotifCall("setMotifID", a, setMotifIDResult(motif, a))
setMotifName(a) == MotifCall("setMotifName", a, setMotifNameResult(motif, a))
setAlphabet(a) == MotifCall("setAlphabet", a, setAlphabetResult(motif, a))
setIsScaled == MotifCall("setIsScaled", "None", setIsScaledResult(motif))
get(g) == MotifCall(g, "None", GetterResult(motif)[g])
compute_minValue == MotifCall("compute_minValue", "None", compute_minValueResult(motif))
print(a) == MotifCall("print", a, printResult(motif, a))

\* ------------------------------------------------------------------------
\* The programs

\* the classes are defined, no MotifSet has been constructed yet
InitSet ==
    /\ instances = {}
    /\ motifs = <<>>
    /\ motifs_num = [s \in SetIds |-> 0]
    /\ cursors = [c \in CursorIds |-> [motifSet |-> 0, index |-> 0]]
    /\ added = [s \in SetIds |-> <<>>]
    /\ yielded = [c \in CursorIds |-> <<>>]
    /\ last = Call("init", 0, "none", <<>>, "none", <<>>, 0)

\* the classes are defined, no Motif has been constructed yet
InitMotif ==
    /\ constructed = FALSE
    /\ motif = ClassMotif
    /\ mutations = 0
    /\ mlast = [op |-> "init", arg |-> "None", err |-> "none", line |-> 0, ret |-> "None"]

\* unique_lst has not been called
InitUtil ==
    /\ ulst = <<>>
    /\ usize = NoSize
    /\ ucalled = FALSE
    /\ uret = U("none", 0, <<>>)

\* assert statements are executed unless the interpreter runs with -O
Init ==
    /\ assertsOn \in BOOLEAN
    /\ InitSet
    /\ InitMotif
    /\ InitUtil

\* Motif has no assert statement
InitOneMotif ==
    /\ assertsOn = TRUE
    /\ InitSet
    /\ InitMotif
    /\ InitUtil

\* a program working on MotifSet objects
Next ==
    \/ \E s \in SetIds : NewMotifSet(s)
    \/ \E s \in SetIds, a \in AddArgs : addMotif(s, a)
    \/ \E s \in SetIds : getMotifsList(s)
    \/ \E s \in SetIds : size(s)
    \/ \E s \in SetIds : len(s)

Spec == Init /\ [][Next]_vars

\* a program that also iterates over its MotifSet objects
NextIter ==
    \/ \E s \in SetIds : NewMotifSet(s)
    \/ \E s \in SetIds, a \in AddArgs : addMotif(s, a)
    \/ \E s \in SetIds : getMotifsList(s)
    \/ \E s \in SetIds : size(s)
    \/ \E s \in SetIds : len(s)
    \/ \E s \in SetIds, c \in CursorIds : iter(s, c)
    \/ \E c \in CursorIds : next(c)

SpecIter == Init /\ [][NextIter]_vars

\* a program working on one Motif object
NextMotif ==
    \/ \E a \in InitArgs : NewMotif(a)
    \/ \E a \in MatrixArgs : setMotif_matrix(a)
    \/ \E a \in ScoreArgs : setMotif_scoreMatrix(a)
    \/ \E a \in PvalArgs : setMotif_pval_matrix(a)
    \/ \E a \in BoundArgs : setMin_val(a)
    \/ \E a \in BoundArgs : setMax_val(a)
    \/ \E a \in ScaleArgs : setScale(a)
    \/ \E a \in OffsetArgs : setOffset(a)
    \/ \E a \in BgArgs : setBg(a)
    \/ \E a \in WidthArgs : setWidth(a)
    \/ \E a \in IdArgs : setMotifID(a)
    \/ \E a \in NameArgs : setMotifName(a)
    \/ \E a \in AlphabetArgs : setAlphabet(a)
    \/ setIsScaled
    \/ \E g \in Getters : get(g)
    \/ compute_minValue
    \/ \E a \in PrintArgs : print(a)

SpecMotif == InitOneMotif /\ [][NextMotif]_vars

\* the arguments of the call of unique_lst are drawn at the start
InitUnique ==
    /\ assertsOn \in BOOLEAN
    /\ InitSet
    /\ InitMotif
    /\ ulst \in ListArgs
    /\ usize \in SizeArgs
    /\ ucalled = FALSE
    /\ uret = U("none", 0, <<>>)

\* a program that calls unique_lst
NextUnique == unique_lst

SpecUnique == InitUnique /\ [][NextUnique]_vars

\* ------------------------------------------------------------------------
\* Derived observations

\* list(motifSet): a fresh cursor run until StopIteration
IterSeq(s) == SubSeq(Motifs(s), 1, motifs_num[s])

\* the last call is addMotif on s
IsAdd(s) == last.op = "addMotif" /\ last.self = s

\* the last call is addMotif on s with a list holding only Motif objects
IsGoodAdd(s) == IsAdd(s) /\ last.kind = "list" /\ AllMotifs(last.arg)

\* the last call is addMotif on s with an argument the type checks reject
IsBadAdd(s) == IsAdd(s) /\ (last.kind # "list" \/ ~AllMotifs(last.arg))

\* s1 is a prefix of s2
IsPrefix(s1, s2) == Len(s1) <= Len(s2) /\ SubSeq(s2, 1, Len(s1)) = s1

\* ------------------------------------------------------------------------
\* Properties of MotifSet

\* C1: in every state, for every MotifSet, the cached count equals the
\* length of its motif sequence, size equals len(), and both equal the
\* number of motifs added to that instance
C1_CountIsLength ==
    \A s \in instances :
        /\ motifs_num[s] = Len(Motifs(s))
        /\ sizeResult(s).err = "none"
        /\ sizeResult(s).val = lenResult(s)
        /\ lenResult(s) = Len(added[s])

\* C2: addMotif on one MotifSet leaves the sequence, the length and the
\* iteration of every other MotifSet unchanged, and a new MotifSet is empty
C2_ExclusiveOwnership ==
    [][/\ \A a \in SetIds, b \in instances :
            (a # b /\ IsAdd(a)') =>
                /\ Motifs(b)' = Motifs(b)
                /\ lenResult(b)' = lenResult(b)
                /\ IterSeq(b)' = IterSeq(b)
       /\ \A s \in SetIds :
            (last'.op = "MotifSet" /\ last'.self = s) =>
                /\ Motifs(s)' = <<>>
                /\ lenResult(s)' = 0
                /\ IterSeq(s)' = <<>>]_vars

\* C3: addMotif of k >= 1 motifs on a set holding n motifs raises count to
\* n + k, keeps the first n motifs and stores the batch at n+1 .. n+k
C3_AppendInOrder ==
    [][\A s \in SetIds :
        (IsGoodAdd(s)' /\ Len(last'.arg) >= 1) =>
            LET n == motifs_num[s]
                k == Len(last'.arg)
            IN  /\ last'.err = "none"
                /\ motifs_num'[s] = n + k
                /\ Len(Motifs(s)') = n + k
                /\ SubSeq(Motifs(s)', 1, n) = Motifs(s)
                /\ SubSeq(Motifs(s)', n + 1, n + k) = last'.arg
                /\ getMotifsListResult(s)'.err = "none"
                /\ getMotifsListResult(s)'.ret[n + 1] = last'.arg[1]]_vars

\* C4 as stated: addMotif([]) raises no error and leaves count and the
\* motif sequence unchanged, on every MotifSet
C4_EmptyBatchNoError ==
    [][\A s \in SetIds :
        (IsGoodAdd(s)' /\ last'.arg = <<>>) =>
            /\ last'.err = "none"
            /\ motifs_num'[s] = motifs_num[s]
            /\ Motifs(s)' = Motifs(s)]_vars

\* C4 amended: addMotif([]) leaves count and the motif sequence unchanged
\* on every MotifSet; it raises no error on a set whose count is positive
\* and fails the assertion on the new count (AssertionError) on a set whose
\* count is zero, when assert statements are executed
C4_EmptyBatch ==
    [][\A s \in SetIds :
        (IsGoodAdd(s)' /\ last'.arg = <<>>) =>
            /\ motifs_num'[s] = motifs_num[s]
            /\ Motifs(s)' = Motifs(s)
            /\ last'.err = IF assertsOn /\ motifs_num[s] = 0
                           THEN "AssertionError" ELSE "none"]_vars

\* C4 witness: an empty batch was added to a set of count zero and the
\* call failed the assertion
C4_Witness ==
    \E s \in instances :
        /\ IsGoodAdd(s) /\ last.arg = <<>>
        /\ last.err = "AssertionError"
        /\ motifs_num[s] = 0

\* C5: addMotif with a non-list argument or with a batch holding a
\* non-Motif fails with TypeError and changes neither sequence nor count
C5_AllOrNothing ==
    [][\A s \in SetIds :
        IsBadAdd(s)' =>
            /\ last'.err = "TypeError"
            /\ motifs_num'[s] = motifs_num[s]
            /\ Motifs(s)' = Motifs(s)]_vars

\* C6: getMotifsList fails with ValueError on a set to which nothing was
\* added, while size is 0 there; on a set holding motifs it returns exactly
\* the motifs added to that set, in order
C6_ListVsSize ==
    \A s \in instances :
        (last.op = "getMotifsList" /\ last.self = s) =>
            IF added[s] = <<>>
            THEN /\ last.err = "ValueError"
                 /\ sizeResult(s) = [err |-> "none", val |-> 0]
            ELSE /\ last.err = "none"
                 /\ last.ret = added[s]

\* C7: a cursor yields the motifs added to its set in insertion order,
\* starts at index 0, and signals StopIteration, never another error,
\* exactly after the last of them
C7_IterationOrder ==
    \A c \in CursorIds :
        cursors[c].motifSet # 0 =>
            LET s == cursors[c].motifSet
            IN  /\ IsPrefix(yielded[c], added[s])
                /\ cursors[c].index = Len(yielded[c])
                /\ (last.op = "iter" /\ last.self = c) => cursors[c].index = 0
                /\ (last.op = "next" /\ last.self = c) =>
                        /\ last.err \in {"none", "StopIteration"}
                        /\ last.err = "StopIteration" => yielded[c] = added[s]

\* C17: a cursor reads the live set: whenever its set holds a motif past
\* the cursor's index, also one added after the cursor was created or
\* after it signalled StopIteration, __next__ yields the motif at that
\* index and moves on by exactly one; no call skips or repeats an index
C17_CursorReadsLiveSet ==
    [][\A c \in CursorIds :
        (last'.op = "next" /\ last'.self = c) =>
            LET s == cursors[c].motifSet
                i == cursors[c].index
            IN  /\ i < Len(added[s]) =>
                        /\ last'.err = "none"
                        /\ last'.val = added[s][i + 1]
                        /\ cursors'[c].index = i + 1
                /\ cursors'[c].index \in {i, i + 1}
                /\ yielded'[c] = SubSeq(Motifs(s)', 1, cursors'[c].index)]_vars

\* ------------------------------------------------------------------------
\* Properties of Motif

\* C8: isScaled is false on a new Motif, no call takes it from true to
\* false, the first setIsScaled makes it true and changes nothing else, and
\* a setIsScaled on a scaled Motif fails with AssertionError and changes no
\* attribute
C8_IsScaledWriteOnce ==
    [][/\ (mlast'.op = "Motif" /\ mlast'.err = "none") =>
            getIsScaledResult(motif').ret = FALSE
       /\ (constructed /\ getIsScaledResult(motif).ret) =>
            getIsScaledResult(motif').ret
       /\ mlast'.op = "setIsScaled" =>
            IF getIsScaledResult(motif).ret
            THEN mlast'.err = "AssertionError" /\ motif' = motif
            ELSE /\ mlast'.err = "none"
                 /\ motif' = [motif EXCEPT !._isScaled = TRUE]]_vars

\* C8 witness: setIsScaled was called on a Motif already scaled and failed
C8_Witness ==
    /\ constructed
    /\ mlast.op = "setIsScaled"
    /\ mlast.err = "AssertionError"
    /\ motif._isScaled

\* l1 lists the elements of l2, each once, in some order
IsPermutation(l1, l2) ==
    /\ Len(l1) = Len(l2)
    /\ \E p \in [1..Len(l1) -> 1..Len(l1)] :
        /\ \A i, j \in 1..Len(l1) : i # j => p[i] # p[j]
        /\ \A i \in 1..Len(l1) : l1[i] = l2[p[i]]

\* the first condition of the construction that the arguments violate
FirstViolated(a) ==
    IF ~(a.count_matrix.kind = "DataFrame" /\ a.count_matrix.val # EmptyMat) THEN "matrix"
    ELSE IF ~(a.width.kind = "int" /\ a.width.val > 0) THEN "width"
    ELSE IF ~(a.motif_id.kind = "str" /\ a.motif_id.val # "") THEN "id"
    ELSE IF ~(a.motif_name.kind = "str" /\ a.motif_name.val # "") THEN "name"
    ELSE IF ~(a.alphabet.kind = "list" /\ IsPermutation(a.alphabet.val, DNA_ALPHABET))
    THEN "alphabet"
    ELSE "none"

\* the raise statements of __init__ that report each condition
RaiseLines ==
    [matrix |-> {171, 174}, width |-> {177, 180}, id |-> {183, 186},
     name |-> {189, 192}, alphabet |-> {195, 198}]

AlphabetChecked ==
    \/ mlast.op = "setAlphabet" /\ mlast.arg.kind = "list"
    \/ mlast.op = "Motif" /\ mlast.line \in {0, 198}

\* the alphabet list handed to the last call
AlphabetGiven ==
    IF mlast.op = "Motif" THEN mlast.arg.alphabet.val ELSE mlast.arg.val

\* C10: construction and setAlphabet accept an alphabet list exactly when
\* the set of its symbols is {A, C, G, T}, whatever the order and however
\* often a symbol is listed
C10_SetEquality ==
    /\ isListEqual(<<"A", "C", "G", "T">>, <<"T", "G", "C", "A">>)
    /\ ~isListEqual(<<"A", "C", "G">>, <<"A", "C", "G", "T">>)
    /\ AlphabetChecked =>
        (mlast.err = "none" <=> Range(AlphabetGiven) = {"A", "C", "G", "T"})

\* ------------------------------------------------------------------------
\* Properties of Motif.compute_minValue

\* the minimum entry of row i
RowMin(mat, i) == Least({mat[i][j] : j \in 1..Len(mat[i])})

RECURSIVE SumRowMins(_, _)
\* the sum of the row minima over the rows 1 .. i
SumRowMins(mat, i) ==
    IF i = 0 THEN 0 ELSE RowMin(mat, i) + SumRowMins(mat, i - 1)

\* C11: compute_minValue sets minValue to the sum over the positions (the
\* rows of the matrix) of the minimum entry of the position's row, and
\* changes no other field, scaled or not
C11_MinValueIsSumOfRowMinima ==
    [][mlast'.op = "compute_minValue" =>
        /\ mlast'.err = "none"
        /\ motif' = [motif EXCEPT
                        !._min_val = SumRowMins(motif._count_matrix,
                                                Len(motif._count_matrix))]]_vars

\* ------------------------------------------------------------------------
\* Properties of the Motif setters and getters

\* the getter that reads the field each setter writes
GetterOf ==
    [setMotif_matrix |-> "getMotif_matrix",
     setMotif_scoreMatrix |-> "getMotif_scoreMatrix",
     setMotif_pval_matrix |-> "getMotif_pval_mat",
     setMin_val |-> "getMin_val",
     setMax_val |-> "getMax_val",
     setScale |-> "getScale",
     setOffset |-> "getOffset",
     setBg |-> "getBg",
     setWidth |-> "getWidth",
     setMotifID |-> "getMotifID",
     setMotifName |-> "getMotifName",
     setAlphabet |-> "getAlphabet"]

Setters == DOMAIN GetterOf

RECURSIVE SeqSum(_)
\* the sum of the entries of a sequence of numbers
SeqSum(s) == IF s = <<>> THEN 0 ELSE Head(s) + SeqSum(Tail(s))

\* the argument is of the kind the setter expects
RightKind(op, a) ==
    CASE op = "setMotif_matrix" -> a.kind = "DataFrame"
      [] op = "setMotif_scoreMatrix" -> a.kind \in {"ndarray", "DataFrame"}
      [] op = "setMotif_pval_matrix" -> a.kind = "ndarray"
      [] op \in {"setMin_val", "setMax_val", "setScale", "setWidth"} -> a.kind = "int"
      [] op = "setOffset" -> a.kind = "np.double"
      [] op = "setBg" -> a.kind = "dict"
      [] op \in {"setMotifID", "setMotifName"} -> a.kind = "str"
      [] op = "setAlphabet" -> a.kind = "list"

\* a value of the right kind lies in the domain of the field
InDomain(op, a) ==
    CASE op \in {"setMotif_matrix", "setMotif_scoreMatrix"} -> a.val # EmptyMat
      [] op = "setMotif_pval_matrix" -> a.val # <<>> /\ SeqSum(a.val) # 0
      [] op \in {"setScale", "setWidth"} -> a.val > 0
      [] op \in {"setMotifID", "setMotifName"} -> a.val # ""
      [] op = "setAlphabet" -> Range(a.val) = Range(DNA_ALPHABET)
      [] OTHER -> TRUE

\* what the getter returns for an argument the setter stored: the matrices
\* of either kind and the dict are returned as the objects they are
Stored(op, a) ==
    IF op \in {"setMotif_scoreMatrix", "setMotif_pval_matrix", "setBg"}
    THEN a ELSE a.val

\* C12: every setter called with a value of the right kind and inside the
\* domain of its field succeeds and the matching getter then returns that
\* value; a getter changes no field
C12_SetGetRoundTrip ==
    [][/\ (/\ mlast'.op \in Setters
           /\ RightKind(mlast'.op, mlast'.arg)
           /\ InDomain(mlast'.op, mlast'.arg)
           /\ mlast'.op = "setAlphabet" => IsPermutation(mlast'.arg.val, DNA_ALPHABET)) =>
            /\ mlast'.err = "none"
            /\ GetterResult(motif')[GetterOf[mlast'.op]].err = "none"
            /\ GetterResult(motif')[GetterOf[mlast'.op]].ret
                    = Stored(mlast'.op, mlast'.arg)
       /\ mlast'.op \in Getters => motif' = motif]_vars

\* C13: once minValue and maxValue have both left their sentinels, after
\* any successful setMin_val, setMax_val and compute_minValue calls,
\* minValue is below maxValue
C13_MinBelowMax ==
    (constructed /\ getMin_valResult(motif).ret # -Inf /\ getMax_valResult(motif).ret # Inf) =>
        getMin_valResult(motif).ret < getMax_valResult(motif).ret


\* C14: print(which) with a string selector succeeds for "raw_counts",
\* "score_matrix" and "pval_matrix" and is refused with a ValueError for
\* every other string; it changes no field of the motif
C14_PrintSelectors ==
    [][(mlast'.op = "print" /\ mlast'.arg.kind = "str") =>
        /\ mlast'.err = (IF mlast'.arg.val \in {"raw_counts", "score_matrix", "pval_matrix"}
                         THEN "none" ELSE "ValueError")
        /\ motif' = motif]_vars


\* C15: a setter called with a value of the wrong kind fails with
\* TypeError, called with a value of the right kind outside the domain of
\* its field it fails with ValueError, and a failed setter call leaves
\* every field of the motif as it was
C15_EagerValidation ==
    [][mlast'.op \in Setters =>
        /\ ~RightKind(mlast'.op, mlast'.arg) => mlast'.err = "TypeError"
        /\ (RightKind(mlast'.op, mlast'.arg) /\ ~InDomain(mlast'.op, mlast'.arg)) =>
                mlast'.err = "ValueError"
        /\ mlast'.err # "none" => motif' = motif]_vars


\* ------------------------------------------------------------------------
\* Properties of unique_lst

RECURSIVE Distinct(_)
\* the distinct elements of lst, each once, in order of first occurrence
Distinct(lst) ==
    IF lst = <<>> THEN <<>>
    ELSE LET front == Distinct(SubSeq(lst, 1, Len(lst) - 1))
         IN  IF lst[Len(lst)] \in Range(front) THEN front
             ELSE Append(front, lst[Len(lst)])

\* the first n elements of lst, all of them when lst has fewer
Take(lst, n) == SubSeq(lst, 1, IF n < Len(lst) THEN n ELSE Len(lst))

\* C16 as stated: for a non-empty list, unique_lst returns the distinct
\* elements in order of first occurrence, and with any size >= 0 given it
\* returns the first size of them (all of them when there are fewer)
C16_PrefixForEverySize ==
    (ucalled /\ ulst # <<>>) =>
        /\ uret.err = "none"
        /\ uret.ret = (IF usize = NoSize THEN Distinct(ulst)
                       ELSE Take(Distinct(ulst), usize.val))

\* C16: for a non-empty list, unique_lst returns the distinct elements in
\* order of first occurrence, and with a size >= 1 given it returns the
\* first size of them (all of them when there are fewer); a size of 0 is
\* never met by the count and limits nothing
C16_PrefixForPositiveSize ==
    (ucalled /\ ulst # <<>>) =>
        /\ uret.err = "none"
        /\ uret.ret = (IF usize = NoSize \/ usize.val = 0 THEN Distinct(ulst)
                       ELSE Take(Distinct(ulst), usize.val))

\* a call with a size that cuts the result short
C16_Witness ==
    /\ ucalled
    /\ usize # NoSize
    /\ usize.val >= 1
    /\ Len(Distinct(ulst)) > usize.val
    /\ Len(uret.ret) = usize.val

====
